---- MODULE Spec2Model ----
(***************************************************************************)
(* A model of app.py: the DATATABLE expression formatter                   *)
(* (generate_dax_datatable), the UTF-16-LE part encoder                    *)
(* (write_utf16le_json), the skeleton builder                              *)
(* (create_strict_pbit_structure) and the request handler generate_pbix    *)
(* with the files it creates, overwrites and deletes.                      *)
(*                                                                         *)
(* Text is a TLA+ string; a file holds an encoded text or raw bytes; a     *)
(* floating-point number is a fixed-point number of Scale units per 1,     *)
(* or NaN.                                                                 *)
(*                                                                         *)
(* Three specifications: Spec serves the requests one after the other on a *)
(* disk that may raise input/output errors, SpecConcurrent serves them at  *)
(* the same time (app.run starts a threaded server) on a disk that raises  *)
(* none, and SpecFmt calls generate_dax_datatable directly.  home() returns *)
(* a constant page and touches none of this state; it has no action.       *)
(***************************************************************************)
EXTENDS Integers, Sequences, FiniteSets, TLC

\* ------------------------------------------------------------------ bounds
\* Rows of the longest frame yf.download returns.
MaxRows == 7
\* Requests served in one behaviour.
MaxCalls == 2
\* Input/output errors the environment raises in one behaviour.
MaxFaults == 1
\* Requests the server handles at the same time.
NumWorkers == 2
\* Rows of a frame handed directly to generate_dax_datatable.
MaxFmtRows == 2

\* --------------------------------------------------------------- constants
\* The digits f"{float(x):.8f}" prints after the decimal point.
Precision == 8

\* --------------------------------------------------------------------- text
Char(s, i) == SubSeq(s, i, i)

\* str.rstrip(c) for a one-character c.
rstrip(s, c) ==
  LET cut == {k \in 0..Len(s) : \A j \in (k + 1)..Len(s) : Char(s, j) = c}
  IN SubSeq(s, 1, CHOOSE k \in cut : \A j \in cut : k <= j)

\* sep.join(parts); ps binds the parts, so that they are evaluated once.
join(sep, parts) ==
  LET joined(ps) ==
        LET upto[n \in 0..Len(ps)] ==
              IF n = 0 THEN ""
              ELSE IF n = 1 THEN ps[1]
              ELSE upto[n - 1] \o sep \o ps[n]
        IN upto[Len(ps)]
  IN CHOOSE t \in {joined(ps) : ps \in {parts}} : TRUE

\* s.find(sub, i): the first index from position i on, or 0 when there is none.
find(s, sub, i) ==
  LET hits == {k \in i..(Len(s) - Len(sub) + 1) : SubSeq(s, k, k + Len(sub) - 1) = sub}
  IN IF hits = {} THEN 0 ELSE CHOOSE k \in hits : \A j \in hits : k <= j

\* sub in s
contains(s, sub) == find(s, sub, 1) > 0

\* s.split(sep)
split(s, sep) ==
  LET from[n \in Nat] == IF n = 0 THEN 1 ELSE find(s, sep, from[n - 1]) + Len(sep)
      last == CHOOSE n \in 0..Len(s) : find(s, sep, from[n]) = 0
                                        /\ \A m \in 0..(n - 1) : find(s, sep, from[m]) > 0
  IN [n \in 1..(last + 1) |->
        SubSeq(s, from[n - 1],
               IF n = last + 1 THEN Len(s) ELSE find(s, sep, from[n - 1]) - 1)]

\* A run of n zeros.
Zeros(n) == SubSeq("00000000", 1, n)

\* The decimal numeral of n >= 0, left-padded with zeros to width w (%02d).
ZeroPad(n, w) == Zeros(w - Len(ToString(n))) \o ToString(n)

\* ------------------------------------------------------------------ numbers
\* The resolution of the fixed-point numbers: four decimal digits.
FracDigits == Len("0000")
Scale == 10 * 10 * 10 * 10

NaN == [nan |-> TRUE, v |-> 0]
Num(units) == [nan |-> FALSE, v |-> units]
\* A number given by its integer part and its four decimal digits.
Dec(sign, ip, frac) == Num(sign * (ip * Scale + frac))

\* pd.isna(x)
isna(x) == x.nan

\* int(float(x)) for a number x: truncation toward zero.
int(x) == IF x.v >= 0 THEN x.v \div Scale ELSE -((-x.v) \div Scale)

\* 10 ** n
Pow10(n) == LET p[k \in 0..n] == IF k = 0 THEN 1 ELSE 10 * p[k - 1] IN p[n]

\* f"{x:.<prec>f}" of a number: prec digits after the point, the value
\* rounded half to even when prec is below the resolution.
format_f(x, prec) ==
  LET a    == IF x.v < 0 THEN -x.v ELSE x.v
      unit == Pow10(FracDigits - prec)
      q    == a \div unit
      r    == a % unit
      kept == IF prec >= FracDigits THEN a
              ELSE IF 2 * r > unit \/ (2 * r = unit /\ q % 2 = 1) THEN q + 1 ELSE q
      digs == IF prec >= FracDigits THEN FracDigits ELSE prec
  IN (IF x.v < 0 THEN "-" ELSE "")
       \o ToString(kept \div Pow10(digs)) \o "."
       \o ZeroPad(kept % Pow10(digs), digs) \o Zeros(prec - digs)

\* f"{float(x):.8f}"
FormatFixed(x) == format_f(x, Precision)

\* fmt_num without the isna test and without the whole-number branch.
fmt_num_unguarded(x) ==
  IF isna(x) THEN "nan" ELSE rstrip(FormatFixed(x), "0")

\* fmt_num of generate_dax_datatable.
fmt_num(x) ==
  IF isna(x) THEN "BLANK()"
  ELSE IF x.v % Scale # 0
       THEN rstrip(rstrip(FormatFixed(x), "0"), ".")
       ELSE ToString(int(x))

\* -------------------------------------------------------------------- dates
Timestamp(Y, m, d, H, M, S) == [Y |-> Y, m |-> m, d |-> d, H |-> H, M |-> M, S |-> S]

\* ts.strftime('%Y-%m-%d %H:%M:%S')
strftime(ts) ==
  ZeroPad(ts.Y, 4) \o "-" \o ZeroPad(ts.m, 2) \o "-" \o ZeroPad(ts.d, 2) \o " "
    \o ZeroPad(ts.H, 2) \o ":" \o ZeroPad(ts.M, 2) \o ":" \o ZeroPad(ts.S, 2)

\* ------------------------------------------------------- expression formatter
\* A DataFrame is [cols: the set of its column labels, rows: a sequence of
\* records over cols].  A result is a returned value or a raised exception.
Return(value) == [ok |-> TRUE, value |-> value, error |-> ""]
Raise(message) == [ok |-> FALSE, value |-> "", error |-> message]

\* row.get(col, default)
get(row, col, default) == IF col \in DOMAIN row THEN row[col] ELSE default

\* The columns generate_dax_datatable reads with row[...], in the order the
\* loop body evaluates them (lines 28, 36, 47, 48).
Subscripted == <<"Date", "Volume", "Open", "High", "Low", "Close">>

\* str(KeyError(col))
KeyError(col) == "'" \o col \o "'"

\* The first label the loop body subscripts that the row lacks, or "".
MissingKey(row) ==
  LET miss == {i \in 1..Len(Subscripted) : Subscripted[i] \notin DOMAIN row}
  IN IF miss = {} THEN ""
     ELSE Subscripted[CHOOSE i \in miss : \A j \in miss : i <= j]

\* The row literal with the Volume field ahead of the Close field.
row_str_volume_first(row) ==
  LET date_str    == strftime(row["Date"])
      volume_val  == IF ~isna(row["Volume"]) THEN int(row["Volume"]) ELSE 0
      anomaly_val == IF get(row, "IsAnomaly", FALSE) THEN "TRUE" ELSE "FALSE"
  IN "        { \"" \o date_str \o "\", " \o fmt_num(row["Open"]) \o ", "
       \o fmt_num(row["High"]) \o ", " \o fmt_num(row["Low"]) \o ", "
       \o ToString(volume_val) \o ", " \o fmt_num(row["Close"]) \o ", "
       \o fmt_num(get(row, "ChangePerc", Num(0))) \o ", "
       \o fmt_num(get(row, "Volatility", Num(0))) \o ", "
       \o anomaly_val \o ", \"" \o get(row, "Ticker", "") \o "\" }"

\* The row literal of one row with every subscripted column present.
row_str(row) ==
  LET date_str    == strftime(row["Date"])
      volume_val  == IF ~isna(row["Volume"]) THEN int(row["Volume"]) ELSE 0
      change_val  == get(row, "ChangePerc", Num(0))
      vol_val     == get(row, "Volatility", Num(0))
      anomaly_val == IF get(row, "IsAnomaly", FALSE) THEN "TRUE" ELSE "FALSE"
      ticker_val  == get(row, "Ticker", "")
  IN "        { \"" \o date_str \o "\", " \o fmt_num(row["Open"]) \o ", "
       \o fmt_num(row["High"]) \o ", " \o fmt_num(row["Low"]) \o ", "
       \o fmt_num(row["Close"]) \o ", " \o ToString(volume_val) \o ", "
       \o fmt_num(change_val) \o ", " \o fmt_num(vol_val) \o ", "
       \o anomaly_val \o ", \"" \o ticker_val \o "\" }"

header ==
  "DATATABLE (\n"
    \o "    \"Date\", DATETIME, \"Open\", DOUBLE, \"High\", DOUBLE, \"Low\", DOUBLE, \"Close\", DOUBLE, "
    \o "\"Volume\", INTEGER, \"ChangePerc\", DOUBLE, \"Volatility\", DOUBLE, \"IsAnomaly\", BOOLEAN, \"Ticker\", STRING,\n    {\n"

generate_dax_datatable(df) ==
  LET bad == {i \in 1..Len(df.rows) : MissingKey(df.rows[i]) # ""}
  IN IF bad # {}
     THEN Raise(KeyError(MissingKey(df.rows[CHOOSE i \in bad : \A j \in bad : i <= j])))
     ELSE Return(header
                   \o join(",\n", [i \in 1..Len(df.rows) |-> row_str(df.rows[i])])
                   \o "\n    }\n)")

\* --------------------------------------------------------------------- JSON
\* A JSON value: a string, an integer, a list, or a dict as the sequence of
\* its (key, value) pairs in insertion order.
Int_(n) == <<"i", n>>
List(items) == <<"l", items>>
Dict(pairs) == <<"o", pairs>>

\* The concatenation of a sequence of texts, by halves; ps binds the
\* sequence, so that it is evaluated once.
RECURSIVE concat(_)
concat(parts) ==
  LET halves(ps) ==
        IF Len(ps) = 0 THEN ""
        ELSE IF Len(ps) = 1 THEN ps[1]
        ELSE concat(SubSeq(ps, 1, Len(ps) \div 2))
               \o concat(SubSeq(ps, Len(ps) \div 2 + 1, Len(ps)))
  IN CHOOSE t \in {halves(ps) : ps \in {parts}} : TRUE

\* json's escape of one character of a str (ensure_ascii, ASCII input).
EscapeChar(c) ==
  IF c = "\"" THEN "\\\""
  ELSE IF c = "\\" THEN "\\\\"
  ELSE IF c = "\n" THEN "\\n"
  ELSE IF c = "\t" THEN "\\t"
  ELSE c

\* json's encoding of the characters of a str.
escape(s) ==
  IF \A k \in 1..Len(s) : EscapeChar(Char(s, k)) = Char(s, k) THEN s
  ELSE concat([k \in 1..Len(s) |-> EscapeChar(Char(s, k))])

\* A JSON string holds its encoding, quotes included.
Str(s) == <<"s", "\"" \o escape(s) \o "\"">>

Spaces(n) == concat([i \in 1..n |-> " "])

\* json.dumps(value, indent=indent) at nesting level; indent = -1 stands for
\* indent=None (one line, ", " and ": " separators).  v binds the value, so
\* that it is evaluated once.
RECURSIVE dumps_at(_, _, _)
dumps_at(value, indent, level) ==
  LET nl(l)  == IF indent < 0 THEN "" ELSE "\n" \o Spaces(indent * l)
      sep    == IF indent < 0 THEN ", " ELSE "," \o nl(level + 1)
      member(v, i) ==
        IF v[1] = "o"
        THEN "\"" \o escape(v[2][i][1]) \o "\": " \o dumps_at(v[2][i][2], indent, level + 1)
        ELSE dumps_at(v[2][i], indent, level + 1)
      text(v) ==
        IF v[1] = "s" THEN v[2]
        ELSE IF v[1] = "i" THEN ToString(v[2])
        ELSE IF Len(v[2]) = 0 THEN IF v[1] = "o" THEN "{}" ELSE "[]"
        ELSE (IF v[1] = "o" THEN "{" ELSE "[") \o nl(level + 1)
               \o join(sep, [i \in 1..Len(v[2]) |-> member(v, i)])
               \o nl(level) \o (IF v[1] = "o" THEN "}" ELSE "]")
  IN CHOOSE t \in {text(v) : v \in {value}} : TRUE

json_dumps(v, indent) == dumps_at(v, indent, 0)

\* ------------------------------------------------------------ create_visual
create_visual(type, x, y, w, h, name, column_name) ==
  LET v_type == IF type = "line" THEN "lineChart"
                ELSE IF type = "bar" THEN "columnChart"
                ELSE IF type = "card" THEN "card"
                ELSE "lineChart"
      source == Dict(<< <<"SourceRef", Dict(<< <<"Source", Str("f")>> >>)>> >>)
      column(prop) ==
        Dict(<< <<"Column", Dict(<< <<"Expression", source>>, <<"Property", Str(prop)>> >>)>>,
                <<"Name", Str("Finance." \o prop)>> >>)
      y_proj == <<"Y", List(<< Dict(<< <<"queryRef", Str("Finance." \o column_name)>> >>) >>)>>
      category == <<"Category", List(<< Dict(<< <<"queryRef", Str("Finance.Date")>> >>) >>)>>
      projections == IF type # "card" THEN <<y_proj, category>> ELSE <<y_proj>>
      select == IF type # "card" THEN <<column(column_name), column("Date")>>
                ELSE <<column(column_name)>>
      config ==
        Dict(<< <<"name", Str(name)>>,
                <<"singleVisual",
                  Dict(<< <<"visualType", Str(v_type)>>,
                          <<"projections", Dict(projections)>>,
                          <<"prototypeQuery",
                            Dict(<< <<"Version", Int_(2)>>,
                                    <<"From", List(<< Dict(<< <<"Name", Str("f")>>,
                                                              <<"Entity", Str("Finance")>>,
                                                              <<"Type", Int_(0)>> >>) >>)>>,
                                    <<"Select", List(select)>> >>)>> >>)>> >>)
  IN Dict(<< <<"x", Int_(x)>>, <<"y", Int_(y)>>, <<"width", Int_(w)>>, <<"height", Int_(h)>>,
             <<"config", Str(json_dumps(config, -1))>> >>)

\* ------------------------------------------- the documents of generate_pbix
\* The column list of the schema document (lines 175-186).
SchemaColumns ==
  << <<"Date", "dateTime">>, <<"Open", "double">>, <<"High", "double">>,
     <<"Low", "double">>, <<"Close", "double">>, <<"Volume", "int64">>,
     <<"ChangePerc", "double">>, <<"Volatility", "double">>,
     <<"IsAnomaly", "boolean">>, <<"Ticker", "string">> >>

model_wrapper(dax_expression) ==
  Dict(<< <<"name", Str("SemanticModel")>>,
          <<"compatibilityLevel", Int_(1550)>>,
          <<"model",
            Dict(<< <<"culture", Str("en-US")>>,
                    <<"tables",
                      List(<< Dict(<<
                        <<"name", Str("Finance")>>,
                        <<"columns",
                          List([i \in 1..Len(SchemaColumns) |->
                                 Dict(<< <<"name", Str(SchemaColumns[i][1])>>,
                                         <<"dataType", Str(SchemaColumns[i][2])>> >>)])>>,
                        <<"partitions",
                          List(<< Dict(<<
                            <<"name", Str("Finance")>>,
                            <<"mode", Str("import")>>,
                            <<"source", Dict(<< <<"type", Str("calculated")>>,
                                                <<"expression", Str(dax_expression)>> >>)>>
                          >>) >>)>>
                      >>) >>)>> >>)>> >>)

card_close == create_visual("card", 10, 10, 300, 150, "CardClose", "Close")
card_high == create_visual("card", 320, 10, 300, 150, "CardHigh", "High")
card_vol == create_visual("card", 630, 10, 300, 150, "CardVol", "Volume")
line_chart == create_visual("line", 10, 170, 920, 350, "MainChart", "Close")
bar_chart == create_visual("bar", 10, 530, 920, 150, "VolChart", "Volume")

report_config(narrative_text) ==
  LET run        == Dict(<< <<"value", Str(narrative_text)>> >>)
      paragraph  == Dict(<< <<"textRuns", List(<<run>>)>> >>)
      general    == Dict(<< <<"properties", Dict(<< <<"paragraphs", List(<<paragraph>>)>> >>)>> >>)
      text_box ==
        Dict(<< <<"x", Int_(10)>>, <<"y", Int_(690)>>, <<"width", Int_(920)>>, <<"height", Int_(50)>>,
                <<"config",
                  Str(json_dumps(
                    Dict(<< <<"name", Str("TextBox1")>>,
                            <<"singleVisual",
                              Dict(<< <<"visualType", Str("textbox")>>,
                                      <<"objects", Dict(<< <<"general", List(<<general>>)>> >>)>> >>)>> >>),
                    -1))>> >>)
  IN Dict(<< <<"sections",
               List(<< Dict(<< <<"name", Str("ReportSection1")>>,
                               <<"displayName", Str("Overview")>>,
                               <<"visualContainers",
                                 List(<<card_close, card_high, card_vol, line_chart,
                                        bar_chart, text_box>>)>> >>) >>)>> >>)

theme ==
  Dict(<< <<"name", Str("Theme")>>,
          <<"dataColors", List(<<Str("#118DFF"), Str("#12239E"), Str("#E66C37"), Str("#6B007B")>>)>>,
          <<"background", Str("#FFFFFF")>>,
          <<"foreground", Str("#000000")>> >>)

settings == Dict(<< <<"locale", Str("en-US")>> >>)

\* ------------------------------------------------------------- file payloads
\* What a file or an archive entry holds: a text encoded with a codec, raw
\* bytes, or a zip archive as the function from entry name to payload.
encode(text, codec) == [codec |-> codec, data |-> text]
RawBytes(bytes) == [codec |-> "raw", data |-> bytes]
ZipArchive(entries) == [codec |-> "zip", data |-> entries]

\* The ASCII characters the texts are made of: code points 32 to 95, 97 to
\* 126, and the line feed.
Ascii32 == " !\"#$%&'()*+,-./0123456789:;<=>?@ABCDEFGHIJKLMNOPQRSTUVWXYZ[\\]^_"
Ascii97 == "abcdefghijklmnopqrstuvwxyz{|}~"
Ord ==
  [c \in {Char(Ascii32, i) : i \in 1..Len(Ascii32)}
           \cup {Char(Ascii97, i) : i \in 1..Len(Ascii97)} \cup {"\n"} |->
     IF c = "\n" THEN 10
     ELSE IF find(Ascii32, c, 1) > 0 THEN 31 + find(Ascii32, c, 1)
     ELSE 96 + find(Ascii97, c, 1)]

\* The bytes of a payload: one byte per character for utf-8 (ASCII text), two
\* bytes per character, low byte first, for utf-16-le, and the same after the
\* byte-order mark FF FE for utf-16.
Bytes(payload) ==
  LET t == payload.data
      wide == [i \in 1..(2 * Len(t)) |->
                 IF i % 2 = 1 THEN Ord[Char(t, (i + 1) \div 2)] % 256
                 ELSE Ord[Char(t, i \div 2)] \div 256]
  IN IF payload.codec = "raw" THEN t
     ELSE IF payload.codec = "utf-8" THEN [i \in 1..Len(t) |-> Ord[Char(t, i)]]
     ELSE IF payload.codec = "utf-16-le" THEN wide
     ELSE <<255, 254>> \o wide

\* --------------------------------------------------------- the file system
\* A disk is [dirs: the set of directories, files: path -> payload].
NoFiles == [p \in {} |-> RawBytes(<<>>)]
Put(f, k, v) == [x \in DOMAIN f \cup {k} |-> IF x = k THEN v ELSE f[x]]

\* os.path.join(a, b)
path_join(a, b) == a \o "/" \o b

\* os.path.dirname(p)
dirname(p) ==
  LET cut == {k \in 1..Len(p) : Char(p, k) = "/"}
  IN IF cut = {} THEN ""
     ELSE SubSeq(p, 1, (CHOOSE k \in cut : \A j \in cut : j <= k) - 1)

\* p lies below directory d.
under(p, d) == Len(p) > Len(d) + 1 /\ SubSeq(p, 1, Len(d) + 1) = d \o "/"

\* os.path.relpath(p, d) for p below d
relpath(p, d) == SubSeq(p, Len(d) + 2, Len(p))

\* os.makedirs(d, exist_ok=True): d and the directories above it.
makedirs(disk_, d) ==
  LET above == {SubSeq(d, 1, k - 1) : k \in {j \in 1..Len(d) : Char(d, j) = "/"}}
  IN IF d = "" THEN disk_
     ELSE [disk_ EXCEPT !.dirs = @ \cup above \cup {d}]

\* open(path, 'w' or 'wb') ... write(payload): the file is created or replaced.
write_file(disk_, path, payload) == [disk_ EXCEPT !.files = Put(@, path, payload)]

\* os.remove(path)
remove(disk_, path) ==
  [disk_ EXCEPT !.files = [x \in DOMAIN @ \ {path} |-> @[x]]]

\* shutil.rmtree(d)
rmtree(disk_, d) ==
  [dirs  |-> {x \in disk_.dirs : x # d /\ ~under(x, d)},
   files |-> [x \in {y \in DOMAIN disk_.files : ~under(y, d)} |-> disk_.files[x]]]

\* str(FileNotFoundError) of a path that does not exist.
FileNotFound(path) == "[Errno 2] No such file or directory: '" \o path \o "'"

\* ------------------------------------------------------- write_utf16le_json
\* The same with 'utf-16', which writes a byte-order mark first.
write_utf16_bom_json(disk_, filename, data) ==
  write_file(makedirs(disk_, dirname(filename)), filename,
             encode(json_dumps(data, 2), "utf-16"))

write_utf16le_json(disk_, filename, data) ==
  write_file(makedirs(disk_, dirname(filename)), filename,
             encode(json_dumps(data, 2), "utf-16-le"))

\* --------------------------------------------- create_strict_pbit_structure
content_types ==
  "<?xml version=\"1.0\" encoding=\"UTF-8\" standalone=\"yes\"?>\n"
    \o "<Types xmlns=\"http://schemas.openxmlformats.org/package/2006/content-types\">\n"
    \o "  <Default Extension=\"json\" ContentType=\"application/json\"/>\n"
    \o "  <Default Extension=\"rels\" ContentType=\"application/vnd.openxmlformats-package.relationships+xml\"/>\n"
    \o "  <Default Extension=\"xml\" ContentType=\"application/xml\"/>\n"
    \o "  <Override PartName=\"/Report/Layout\" ContentType=\"application/vnd.ms-powerbi.content.layout+json\"/>\n"
    \o "  <Override PartName=\"/DataModelSchema\" ContentType=\"application/vnd.ms-powerbi.content.schema+json\"/>\n"
    \o "  <Override PartName=\"/Report/Theme\" ContentType=\"application/vnd.ms-powerbi.content.theme+json\"/>\n"
    \o "  <Override PartName=\"/Settings\" ContentType=\"application/vnd.ms-powerbi.content.settings+json\"/>\n"
    \o "  <Override PartName=\"/Version\" ContentType=\"application/vnd.ms-powerbi.content.version+binary\"/>\n"
    \o "  <Override PartName=\"/Metadata\" ContentType=\"application/json\"/>\n"
    \o "</Types>"

rels ==
  "<?xml version=\"1.0\" encoding=\"UTF-8\" standalone=\"yes\"?>\n"
    \o "<Relationships xmlns=\"http://schemas.openxmlformats.org/package/2006/relationships\">\n"
    \o "  <Relationship Id=\"rId1\" Type=\"http://schemas.microsoft.com/powerbi/2016/06/reportlayout\" Target=\"Report/Layout\"/>\n"
    \o "  <Relationship Id=\"rId2\" Type=\"http://schemas.microsoft.com/powerbi/2016/06/datamodelschema\" Target=\"DataModelSchema\"/>\n"
    \o "  <Relationship Id=\"rId3\" Type=\"http://schemas.microsoft.com/powerbi/2016/06/theme\" Target=\"Report/Theme\"/>\n"
    \o "  <Relationship Id=\"rId4\" Type=\"http://schemas.microsoft.com/powerbi/2016/06/settings\" Target=\"Settings\"/>\n"
    \o "  <Relationship Id=\"rId5\" Type=\"http://schemas.microsoft.com/powerbi/2016/06/version\" Target=\"Version\"/>\n"
    \o "  <Relationship Id=\"rId6\" Type=\"http://schemas.microsoft.com/powerbi/2016/06/metadata\" Target=\"Metadata\"/>\n"
    \o "</Relationships>"

VersionBytes == <<0, 0, 0, 0, 0, 0, 0, 0, 1, 19>>

\* The entries zf.writestr adds, a str being stored as its UTF-8 encoding.
SkeletonEntries ==
  LET names == {"[Content_Types].xml", "_rels/.rels", "Version", "Report/Theme", "Metadata"}
  IN [n \in names |->
        IF n = "[Content_Types].xml" THEN encode(content_types, "utf-8")
        ELSE IF n = "_rels/.rels" THEN encode(rels, "utf-8")
        ELSE IF n = "Version" THEN RawBytes(VersionBytes)
        ELSE IF n = "Report/Theme"
          THEN encode(json_dumps(Dict(<< <<"name", Str("Theme")>> >>), -1), "utf-8")
        ELSE encode(json_dumps(Dict(<< <<"type", Str("Report")>>,
                                       <<"name", Str("GeneratedReport")>> >>), -1), "utf-8")]

\* The skeleton without its Metadata entry.
create_structure_no_metadata(disk_, filename) ==
  write_file(disk_, filename,
             ZipArchive([n \in DOMAIN SkeletonEntries \ {"Metadata"} |-> SkeletonEntries[n]]))

create_strict_pbit_structure(disk_, filename) ==
  write_file(disk_, filename, ZipArchive(SkeletonEntries))

\* zin.extractall(dest): every entry becomes a file below dest, its
\* directories created as needed.
extractall(disk_, archive, dest) ==
  LET entries == disk_.files[archive].data
      made == [disk_ EXCEPT !.dirs =
                 @ \cup UNION {makedirs(disk_, dirname(path_join(dest, n))).dirs :
                                 n \in DOMAIN entries}
                   \cup makedirs(disk_, dest).dirs]
  IN [made EXCEPT !.files =
        [x \in DOMAIN @ \cup {path_join(dest, n) : n \in DOMAIN entries} |->
           IF under(x, dest) /\ relpath(x, dest) \in DOMAIN entries
           THEN entries[relpath(x, dest)] ELSE @[x]]]

\* The same for the files directly in top only.
zip_top_level(disk_, filename, top) ==
  LET found == {x \in DOMAIN disk_.files : under(x, top) /\ ~contains(relpath(x, top), "/")}
  IN write_file(disk_, filename,
                ZipArchive([n \in {relpath(x, top) : x \in found} |->
                              disk_.files[path_join(top, n)]]))

\* The loop of lines 234-239: every file os.walk finds below top, stored under
\* its path relative to top.  os.walk of a directory that does not exist
\* yields nothing.
zip_tree(disk_, filename, top) ==
  LET found == {x \in DOMAIN disk_.files : under(x, top)}
      arcnames == {relpath(x, top) : x \in found}
  IN write_file(disk_, filename,
                ZipArchive([n \in arcnames |-> disk_.files[path_join(top, n)]]))

\* base64.b64encode(data).decode('utf-8') and its inverse.
b64encode(payload) == [b64 |-> payload]
b64decode(text) == text.b64

\* ------------------------------------------------------ derived statistics
\* pandas' arithmetic is carried out on hundredths: a price in hundredths, a
\* percentage in hundredths of a percent, quotients and roots truncated.
Window == 5

Hundredths(x) == x.v \div 100
FromHundredths(h) == Num(h * 100)

\* a / b truncated toward zero, b > 0.
Quot(a, b) == IF a >= 0 THEN a \div b ELSE -((-a) \div b)

Sum(xs) ==
  LET upto[n \in 0..Len(xs)] == IF n = 0 THEN 0 ELSE upto[n - 1] + xs[n]
  IN upto[Len(xs)]

\* The integer square root of v >= 0, between lo and hi; l and h bind the
\* ends, so that they are evaluated once.
RECURSIVE RootBetween(_, _, _)
RootBetween(v, lo, hi) ==
  LET root(l, h) ==
        IF l >= h THEN l
        ELSE IF ((l + h + 1) \div 2) * ((l + h + 1) \div 2) <= v
          THEN RootBetween(v, (l + h + 1) \div 2, h)
          ELSE RootBetween(v, l, (l + h + 1) \div 2 - 1)
  IN CHOOSE r \in {root(l, h) : l \in {lo}, h \in {hi}} : TRUE

\* df['Close'].pct_change() * 100; the Close cells of a frame are numbers.
pct_change_100(close) ==
  [i \in 1..Len(close) |->
     IF i = 1 THEN NaN
     ELSE FromHundredths(Quot((Hundredths(close[i]) - Hundredths(close[i - 1])) * 10000,
                              Hundredths(close[i - 1])))]

\* Series.std(): the sample standard deviation (ddof=1) of the numbers of xs,
\* NaN when there are fewer than two.
std(xs) ==
  LET h  == [i \in 1..Len(xs) |-> Hundredths(xs[i])]
      n  == Len(h)
      s1 == Sum(h)
      s2 == Sum([i \in 1..n |-> h[i] * h[i]])
      var == Quot(n * s2 - s1 * s1, n * (n - 1))
  IN IF n < 2 THEN NaN ELSE FromHundredths(RootBetween(var, 0, 46340))

IsNumber(x) == ~isna(x)

\* series.rolling(window=window).std(): NaN until the window holds window numbers.
rolling_std(xs, window) ==
  [i \in 1..Len(xs) |->
     IF i < window \/ \E k \in (i - window + 1)..i : isna(xs[k]) THEN NaN
     ELSE std(SubSeq(xs, i - window + 1, i))]

\* The cells of the columns that hold floating-point numbers.
NumericColumns == {"Open", "High", "Low", "Close", "Volume", "ChangePerc", "Volatility"}

HasNaN(row) == \E c \in DOMAIN row \cap NumericColumns : isna(row[c])
Complete(row) == ~HasNaN(row)

\* df.dropna(): the rows with no NaN cell.
dropna(df_) == [df_ EXCEPT !.rows = SelectSeq(@, Complete)]

\* df.fillna(0)
fillna0(df_) ==
  [df_ EXCEPT !.rows =
     [i \in 1..Len(@) |->
        [c \in DOMAIN @[i] |->
           IF c \in NumericColumns /\ isna(@[i][c]) THEN Num(0) ELSE @[i][c]]]]

\* Lines 140 and 146-149: the Ticker column, the three derived columns, then
\* dropna().fillna(0).
calculations(frame, ticker_) ==
  LET n       == Len(frame.rows)
      change  == pct_change_100([i \in 1..n |-> frame.rows[i]["Close"]])
      volat   == rolling_std(change, Window)
      spread  == std(SelectSeq(change, IsNumber))
      anomaly == [i \in 1..n |->
                    /\ ~isna(change[i]) /\ ~isna(spread)
                    /\ (IF change[i].v < 0 THEN -change[i].v ELSE change[i].v) > spread.v * 2]
      cell(i, c) ==
        IF c = "Ticker" THEN ticker_
        ELSE IF c = "ChangePerc" THEN change[i]
        ELSE IF c = "Volatility" THEN volat[i]
        ELSE IF c = "IsAnomaly" THEN anomaly[i]
        ELSE frame.rows[i][c]
      cols == frame.cols \cup {"Ticker", "ChangePerc", "Volatility", "IsAnomaly"}
  IN fillna0(dropna([cols |-> cols,
                     rows |-> [i \in 1..n |-> [c \in cols |-> cell(i, c)]]]))

\* f"{ticker}: {int(df['IsAnomaly'].sum())} anomalies. Max Move: {df['ChangePerc'].max():.2f}%"
narrative_of(ticker_, df_) ==
  LET n     == Len(df_.rows)
      count == Cardinality({i \in 1..n : df_.rows[i]["IsAnomaly"]})
      top   == CHOOSE i \in 1..n : \A j \in 1..n : df_.rows[j]["ChangePerc"].v <= df_.rows[i]["ChangePerc"].v
      max   == IF n = 0 THEN "nan" ELSE format_f(df_.rows[top]["ChangePerc"], 2)
  IN ticker_ \o ": " \o ToString(count) \o " anomalies. Max Move: " \o max \o "%"

\* --------------------------------------------------------- the request
\* str.lower() of an ASCII text.
lower(s) ==
  LET upper == "ABCDEFGHIJKLMNOPQRSTUVWXYZ"
      lc(c) == IF find(upper, c, 1) > 0 THEN Char(Ascii97, find(upper, c, 1)) ELSE c
  IN concat([i \in 1..Len(s) |-> lc(Char(s, i))])

\* Lines 129-134: request.json.get('query', 'Tesla last 30 days') and the ticker.
query_of(body) == IF "query" \in DOMAIN body THEN body["query"] ELSE "Tesla last 30 days"

ticker_of(query) ==
  IF contains(lower(query), "apple") THEN "AAPL"
  ELSE IF contains(lower(query), "bitcoin") THEN "BTC-USD"
  ELSE IF contains(lower(query), "ethereum") THEN "ETH-USD"
  ELSE IF contains(lower(query), "spy") THEN "SPY"
  ELSE "TSLA"

\* ------------------------------------------------- what yf.download returns
RawColumns == {"Date", "Open", "High", "Low", "Close", "Volume"}

PriceRow(i) ==
  LET close == (100 + ((i * 7) % 5) + (IF i % 7 = 0 THEN 10 ELSE 0)) * Scale + 5000 * (i % 2)
  IN [Date |-> Timestamp(2024, 1, i, 0, 0, 0), Open |-> Num(close - 2500),
      High |-> Num(close + 12500), Low |-> Num(close - 17500), Close |-> Num(close),
      Volume |-> Num((1000 + 37 * i) * Scale)]

\* A frame of n daily rows, reset_index() applied: whole, with a NaN Open in
\* its last row, without its Open column, or without its Close column.
Frame(n, variant) ==
  LET cols == IF variant = "no_open" THEN RawColumns \ {"Open"}
              ELSE IF variant = "no_close" THEN RawColumns \ {"Close"}
              ELSE RawColumns
      cell(i, c) == IF variant = "nan" /\ i = n /\ c = "Open" THEN NaN ELSE PriceRow(i)[c]
  IN [cols |-> cols, rows |-> [i \in 1..n |-> [c \in cols |-> cell(i, c)]]]

\* The request bodies: one without a query, and queries that name a ticker.
RequestBodies ==
  {[k \in {} |-> ""]} \cup
  {[query |-> q] : q \in {"Apple last 30 days", "Bitcoin vs Ethereum", "my SPY fund"}}

Downloads ==
  {Frame(n, "full") : n \in 0..MaxRows}
    \cup {Frame(MaxRows, v) : v \in {"nan", "no_open", "no_close"}}

\* ------------------------------------------------------------ generate_pbix
VARIABLES
  pc,                   \* where each worker is in generate_pbix
  ticker,               \* the locals of each worker's call
  df,
  dax_data_expression,
  narrative,
  pbix_b64,
  response,             \* what the call returned: [code, body]
  disk,                 \* the working directory, shared by the workers
  calls,                \* requests begun
  faults,               \* input/output errors raised so far
  arg_df,               \* the frame of a direct call of generate_dax_datatable
  ret_dax               \* its result, or Pending before the call returns

Workers == 1..NumWorkers

extract_dir == "pbit_extracted"
temp_zip == "temp_structure.zip"
output_filename(ticker_) == ticker_ \o "_dashboard.pbit"

NoBody == [k \in {} |-> ""]
NoResponse == [code |-> 0, body |-> NoBody]
NoFrame == [cols |-> {}, rows |-> <<>>]
Unbound == b64encode(RawBytes(<<>>))

\* return jsonify({"error": "No data found"}), 400
NoDataResponse == [code |-> 400, body |-> [error |-> "No data found"]]
\* return jsonify({"status": "error", "error": str(e)}), 500
ErrorResponse(message) == [code |-> 500, body |-> [status |-> "error", error |-> message]]
\* return jsonify({"pbix_base64": pbix_b64, "narrative": narrative, "status": "success"})
SuccessResponse(b64, narrative_) ==
  [code |-> 200, body |-> [pbix_base64 |-> b64, narrative |-> narrative_, status |-> "success"]]

\* str(e) of an input/output error the environment raises.
IOError == "[Errno 5] Input/output error"

\* Lines 129-153 for one request body and one download: the ticker, whether
\* the frame is rejected, the frame after the derived columns and the row
\* filter, the expression (or the error of the formatter) and the narrative.
Prepare(body, frame) ==
  LET ticker_  == ticker_of(query_of(body))
      rejected == "Close" \notin frame.cols \/ Len(frame.rows) = 0
      df_      == IF rejected THEN NoFrame ELSE calculations(frame, ticker_)
      dax      == IF rejected THEN Raise("") ELSE generate_dax_datatable(df_)
  IN [ticker |-> ticker_, rejected |-> rejected, df |-> df_, dax |-> dax,
      narrative |-> IF dax.ok THEN narrative_of(ticker_, df_) ELSE ""]

\* What the requests of the model come to.
Requests == {Prepare(body, frame) : body \in RequestBodies, frame \in Downloads}

\* The requests served at the same time: whole frames of the two longest sizes.
Overlapping ==
  {Prepare(body, Frame(n, "full")) :
     body \in {[k \in {} |-> ""], [query |-> "Apple last 30 days"]},
     n \in {MaxRows - 1, MaxRows}}

locals == <<ticker, df, dax_data_expression, narrative, pbix_b64>>
direct == <<arg_df, ret_dax>>

\* The except clause: the call ends with the error response; nothing is cleaned.
Except(w, message) ==
  /\ pc' = [pc EXCEPT ![w] = "done"]
  /\ response' = [response EXCEPT ![w] = ErrorResponse(message)]

\* Whether the environment raises an error in this step.
Inject(inject, fault) ==
  /\ fault \in inject
  /\ fault => faults < MaxFaults
  /\ faults' = IF fault THEN faults + 1 ELSE faults

\* One statement that works on the disk: it raises (an injected error, or
\* the error of the statement itself), or it leaves the disk as after and the
\* worker at next.
Statement(w, at, next, inject, error, after) ==
  /\ pc[w] = at
  /\ \E fault \in BOOLEAN :
       /\ Inject(inject, fault)
       /\ IF fault \/ error # ""
          THEN Except(w, IF fault THEN IOError ELSE error) /\ disk' = disk
          ELSE /\ pc' = [pc EXCEPT ![w] = next]
               /\ response' = response
               /\ disk' = after
  /\ UNCHANGED <<locals, calls, direct>>

\* Lines 129-153: the query, the download, the validation, the derived
\* columns and the expression.
Begin(w, requests, inject) ==
  /\ pc[w] \in {"idle", "done"}
  /\ calls < MaxCalls
  /\ calls' = calls + 1
  /\ \E r \in requests, fault \in BOOLEAN :
       LET computed == ~fault /\ ~r.rejected /\ r.dax.ok IN
       /\ Inject(inject, fault)
       /\ ticker' = [ticker EXCEPT ![w] = r.ticker]
       /\ df' = [df EXCEPT ![w] = IF fault THEN NoFrame ELSE r.df]
       /\ dax_data_expression' =
            [dax_data_expression EXCEPT ![w] = IF computed THEN r.dax.value ELSE ""]
       /\ narrative' = [narrative EXCEPT ![w] = IF computed THEN r.narrative ELSE ""]
       /\ pbix_b64' = [pbix_b64 EXCEPT ![w] = Unbound]
       /\ IF fault THEN Except(w, IOError)
          ELSE IF r.rejected
            THEN /\ pc' = [pc EXCEPT ![w] = "done"]
                 /\ response' = [response EXCEPT ![w] = NoDataResponse]
          ELSE IF ~r.dax.ok THEN Except(w, r.dax.error)
          ELSE /\ pc' = [pc EXCEPT ![w] = "rmtree"]
               /\ response' = [response EXCEPT ![w] = NoResponse]
  /\ UNCHANGED <<disk, direct>>

\* Line 157: shutil.rmtree(extract_dir, ignore_errors=True); an error leaves
\* the tree in place and is not raised.
RemoveStaleTree(w, inject) ==
  /\ pc[w] = "rmtree"
  /\ \E fault \in BOOLEAN :
       /\ Inject(inject, fault)
       /\ disk' = IF fault THEN disk ELSE rmtree(disk, extract_dir)
  /\ pc' = [pc EXCEPT ![w] = "makedirs"]
  /\ UNCHANGED <<locals, response, calls, direct>>

\* Line 158: os.makedirs(extract_dir, exist_ok=True)
MakeExtractDir(w, inject) ==
  Statement(w, "makedirs", "structure", inject, "", makedirs(disk, extract_dir))

\* Line 162: create_strict_pbit_structure(temp_zip)
CreateStructure(w, inject) ==
  Statement(w, "structure", "extract", inject, "",
            create_strict_pbit_structure(disk, temp_zip))

\* Lines 163-164: zipfile.ZipFile(temp_zip, 'r') ... zin.extractall(extract_dir)
ExtractStructure(w, inject) ==
  Statement(w, "extract", "remove_temp", inject,
            IF temp_zip \in DOMAIN disk.files THEN "" ELSE FileNotFound(temp_zip),
            extractall(disk, temp_zip, extract_dir))

\* Line 165: os.remove(temp_zip)
RemoveTempZip(w, inject) ==
  Statement(w, "remove_temp", "schema", inject,
            IF temp_zip \in DOMAIN disk.files THEN "" ELSE FileNotFound(temp_zip),
            remove(disk, temp_zip))

\* Lines 168-195: the schema document
WriteSchema(w, inject) ==
  Statement(w, "schema", "layout", inject, "",
            write_utf16le_json(disk, path_join(extract_dir, "DataModelSchema"),
                               model_wrapper(dax_data_expression[w])))

\* Lines 198-220: the layout document
WriteLayout(w, inject) ==
  Statement(w, "layout", "theme", inject, "",
            write_utf16le_json(disk, path_join(path_join(extract_dir, "Report"), "Layout"),
                               report_config(narrative[w])))

\* Lines 224-227: the theme, json.dump(theme, f, indent=2) on a utf-8 file
WriteTheme(w, inject) ==
  Statement(w, "theme", "settings", inject, "",
            write_file(makedirs(disk, path_join(extract_dir, "Report")),
                       path_join(path_join(extract_dir, "Report"), "Theme"),
                       encode(json_dumps(theme, 2), "utf-8")))

\* The handler without its settings statement.
SkipSettings(w, inject) ==
  Statement(w, "settings", "zip", inject, "", disk)

\* Lines 229-230: the settings
WriteSettings(w, inject) ==
  Statement(w, "settings", "zip", inject, "",
            write_utf16le_json(disk, path_join(extract_dir, "Settings"), settings))

\* Lines 233-239: the output archive
ZipOutput(w, inject) ==
  Statement(w, "zip", "rmtree_out", inject, "",
            zip_tree(disk, output_filename(ticker[w]), extract_dir))

\* Line 241: shutil.rmtree(extract_dir)
RemoveTree(w, inject) ==
  Statement(w, "rmtree_out", "read", inject,
            IF extract_dir \in disk.dirs THEN "" ELSE FileNotFound(extract_dir),
            rmtree(disk, extract_dir))

\* Lines 244-245: pbix_b64 = base64.b64encode(f.read()).decode('utf-8')
ReadOutput(w, inject) ==
  /\ pc[w] = "read"
  /\ \E fault \in BOOLEAN :
       LET name == output_filename(ticker[w]) IN
       /\ Inject(inject, fault)
       /\ IF fault \/ name \notin DOMAIN disk.files
          THEN /\ Except(w, IF fault THEN IOError ELSE FileNotFound(name))
               /\ pbix_b64' = pbix_b64
          ELSE /\ pc' = [pc EXCEPT ![w] = "remove_out"]
               /\ response' = response
               /\ pbix_b64' = [pbix_b64 EXCEPT ![w] = b64encode(disk.files[name])]
  /\ UNCHANGED <<ticker, df, dax_data_expression, narrative, disk, calls, direct>>

\* Lines 246-249: the output archive is removed if it exists, and the call
\* returns the archive.
RemoveOutputAndReturn(w, inject) ==
  /\ pc[w] = "remove_out"
  /\ \E fault \in BOOLEAN :
       /\ Inject(inject, fault)
       /\ IF fault
          THEN Except(w, IOError) /\ disk' = disk
          ELSE /\ pc' = [pc EXCEPT ![w] = "done"]
               /\ response' = [response EXCEPT ![w] = SuccessResponse(pbix_b64[w], narrative[w])]
               /\ disk' = remove(disk, output_filename(ticker[w]))
  /\ UNCHANGED <<locals, calls, direct>>

\* The server before its first request.
ServerInit ==
  /\ pc = [w \in Workers |-> "idle"]
  /\ ticker = [w \in Workers |-> ""]
  /\ df = [w \in Workers |-> NoFrame]
  /\ dax_data_expression = [w \in Workers |-> ""]
  /\ narrative = [w \in Workers |-> ""]
  /\ pbix_b64 = [w \in Workers |-> Unbound]
  /\ response = [w \in Workers |-> NoResponse]
  /\ disk = [dirs |-> {}, files |-> NoFiles]
  /\ calls = 0
  /\ faults = 0

\* One step of worker w.
Serve(w, requests, inject) ==
  \/ Begin(w, requests, inject)
  \/ RemoveStaleTree(w, inject)
  \/ MakeExtractDir(w, inject)
  \/ CreateStructure(w, inject)
  \/ ExtractStructure(w, inject)
  \/ RemoveTempZip(w, inject)
  \/ WriteSchema(w, inject)
  \/ WriteLayout(w, inject)
  \/ WriteTheme(w, inject)
  \/ WriteSettings(w, inject)
  \/ ZipOutput(w, inject)
  \/ RemoveTree(w, inject)
  \/ ReadOutput(w, inject)
  \/ RemoveOutputAndReturn(w, inject)

Pending == [ok |-> FALSE, value |-> "", error |-> "<pending>"]

vars == <<pc, ticker, df, dax_data_expression, narrative, pbix_b64, response,
          disk, calls, faults, arg_df, ret_dax>>
server == <<pc, ticker, df, dax_data_expression, narrative, pbix_b64, response,
            disk, calls, faults>>

\* Requests served one after the other, on a disk that may raise errors.
Init == ServerInit /\ arg_df = NoFrame /\ ret_dax = Pending
Next == Serve(1, Requests, BOOLEAN)
Spec == Init /\ [][Next]_vars

\* Requests served at the same time, on a disk that raises no error.
NextConcurrent == \E w \in Workers : Serve(w, Overlapping, {FALSE})
SpecConcurrent == Init /\ [][NextConcurrent]_vars


\* -------------------------------------------------- the formatter, on its own
AllColumns ==
  {"Date", "Open", "High", "Low", "Close", "Volume", "ChangePerc", "Volatility",
   "IsAnomaly", "Ticker"}

\* The row of the concrete scenario, and two rows that exercise the other
\* branches of the field rules.
SampleRows ==
  << [Date |-> Timestamp(2024, 1, 2, 0, 0, 0), Open |-> Dec(1, 100, 5000),
      High |-> Dec(1, 101, 2500), Low |-> Dec(1, 99, 7500), Close |-> Dec(1, 100, 0),
      Volume |-> Dec(1, 12345, 0), ChangePerc |-> Dec(-1, 0, 4975),
      Volatility |-> NaN, IsAnomaly |-> FALSE, Ticker |-> "TSLA"],
     [Date |-> Timestamp(2024, 11, 30, 9, 5, 7), Open |-> NaN,
      High |-> Dec(1, 0, 0), Low |-> Dec(-1, 3, 0), Close |-> Dec(1, 0, 1),
      Volume |-> NaN, ChangePerc |-> Dec(1, 12, 0),
      Volatility |-> Dec(1, 2, 5000), IsAnomaly |-> TRUE, Ticker |-> "BTC-USD"],
     [Date |-> Timestamp(2025, 2, 3, 23, 59, 59), Open |-> Dec(1, 7, 1000),
      High |-> Dec(1, 1200, 0), Low |-> NaN, Close |-> Dec(-1, 10, 100),
      Volume |-> Dec(1, 987, 6000), ChangePerc |-> NaN,
      Volatility |-> Dec(1, 30, 0), IsAnomaly |-> FALSE, Ticker |-> "SPY"] >>

\* row restricted to the labels in cols.
Project(row, cols) == [c \in cols |-> row[c]]

SeqsUpTo(S, n) == UNION {[1..k -> S] : k \in 0..n}

\* Frames with every column, or with one column absent.
FmtFrames ==
  LET colsets == {AllColumns} \cup {AllColumns \ {c} : c \in AllColumns}
      picks   == SeqsUpTo(1..Len(SampleRows), MaxFmtRows)
  IN {[cols |-> cols,
       rows |-> [i \in 1..Len(p) |-> Project(SampleRows[p[i]], cols)]] :
        cols \in colsets, p \in picks}

\* A direct call of generate_dax_datatable.
FmtInit == ServerInit /\ arg_df \in FmtFrames /\ ret_dax = Pending

Format ==
  /\ ret_dax = Pending
  /\ ret_dax' = generate_dax_datatable(arg_df)
  /\ UNCHANGED <<arg_df, server>>

FmtNext == Format

SpecFmt == FmtInit /\ [][FmtNext]_vars

\* ------------------------------------------------ reading an expression back
\* The row literals of an expression, in order: the lines between the header's
\* opening brace and the closing one, without indentation and joining comma.
RowLiterals(dax) ==
  LET lines == split(dax, "\n")
      between == SubSeq(lines, 4, Len(lines) - 2)
      body  == IF between = <<"">> THEN <<>> ELSE between
      strip(l) == LET t == rstrip(l, ",") IN SubSeq(t, 9, Len(t))
  IN [i \in 1..Len(body) |-> strip(body[i])]

\* The fields of a row literal "{ f1, f2, ... }".
Fields(lit) == split(SubSeq(lit, 3, Len(lit) - 2), ", ")

Quoted(f) == Len(f) >= 2 /\ Char(f, 1) = "\"" /\ Char(f, Len(f)) = "\""

FloatColumns == <<"Open", "High", "Low", "Close", "ChangePerc", "Volatility">>
FloatField == [Open |-> 2, High |-> 3, Low |-> 4, Close |-> 5, ChangePerc |-> 7, Volatility |-> 8]

ScenarioLiteral ==
  "{ \"2024-01-02 00:00:00\", 100.5, 101.25, 99.75, 100, 12345, -0.4975, BLANK(), FALSE, \"TSLA\" }"

\* C8: every row of a formatted frame yields one brace-delimited literal of
\* exactly ten fields; a NaN floating-point cell is the token BLANK() and no
\* field is NaN or empty, a whole-valued float has no fractional part, a
\* missing Volume is 0, the boolean is TRUE or FALSE, the timestamp and the
\* ticker are double-quoted, and the scenario's row gives the scenario's literal.
C8_RowLiteral ==
  ret_dax.ok =>
    LET lits == RowLiterals(ret_dax.value)
    IN /\ Len(lits) = Len(arg_df.rows)
       /\ \A i \in 1..Len(lits) :
            LET row == arg_df.rows[i]
                lit == lits[i]
                f   == Fields(lit)
            IN /\ SubSeq(lit, 1, 2) = "{ " /\ SubSeq(lit, Len(lit) - 1, Len(lit)) = " }"
               /\ Len(f) = 10
               /\ \A j \in 1..Len(f) : f[j] \notin {"", "nan", "NaN"}
               /\ Quoted(f[1]) /\ Len(f[1]) = 21
               /\ Quoted(f[10])
               /\ f[9] \in {"TRUE", "FALSE"}
               /\ "IsAnomaly" \in DOMAIN row => (f[9] = "TRUE" <=> row["IsAnomaly"])
               /\ isna(row["Volume"]) => f[6] = "0"
               /\ ~contains(f[6], ".")
               /\ \A k \in 1..Len(FloatColumns) :
                    LET c == FloatColumns[k] IN
                    c \in DOMAIN row =>
                      /\ isna(row[c]) <=> f[FloatField[c]] = "BLANK()"
                      /\ (~isna(row[c]) /\ row[c].v % Scale = 0)
                            => ~contains(f[FloatField[c]], ".")
               /\ row = SampleRows[1] => lit = ScenarioLiteral

\* C8 witness: the scenario's row and a row with NaN cells have been formatted.
C8_Witness ==
  /\ ret_dax.ok
  /\ arg_df.rows = <<SampleRows[1], SampleRows[2]>>


\* ---------------------------------------------------- reading an archive back
\* The character of a code point, and bytes.decode(codec) of ASCII text.
Chr(b) == CHOOSE c \in DOMAIN Ord : Ord[c] = b

decode(bytes, codec) ==
  IF codec = "utf-8" THEN concat([i \in 1..Len(bytes) |-> Chr(bytes[i])])
  ELSE concat([i \in 1..(Len(bytes) \div 2) |-> Chr(bytes[2 * i - 1] + 256 * bytes[2 * i])])

\* Worker w's call has returned an archive; the entries of that archive.
Returned(w) == pc[w] = "done" /\ response[w].code = 200
Archive(w) == b64decode(response[w].body.pbix_base64).data

\* The values of attribute="..." in an XML text.
Attributes(xml, attribute) ==
  LET parts == split(xml, attribute \o "=\"")
  IN {SubSeq(parts[i], 1, find(parts[i], "\"", 1) - 1) : i \in 2..Len(parts)}

\* The Target of every Relationship, the PartName of every Override (without
\* its leading slash) and the Extension of every Default.
Targets(xml) == Attributes(xml, "Target")
Overrides(xml) == {SubSeq(n, 2, Len(n)) : n \in Attributes(xml, "PartName")}
Defaults(xml) == Attributes(xml, "Extension")

\* The extension of a path: what follows the last dot of its last component.
Extension(path) ==
  LET name == SubSeq(path, Len(dirname(path)) + 1, Len(path))
      dots == {k \in 1..Len(name) : Char(name, k) = "."}
  IN IF dots = {} THEN ""
     ELSE SubSeq(name, (CHOOSE k \in dots : \A j \in dots : j <= k) + 1, Len(name))

SixTargets == {"Report/Layout", "DataModelSchema", "Report/Theme", "Settings", "Version", "Metadata"}

\* C1: every archive a call returns for a table that has rows holds an entry
\* at each of the six targets its own _rels/.rels lists (Report/Layout,
\* DataModelSchema, Report/Theme, Settings, Version, Metadata), and each of
\* those paths is covered by its [Content_Types].xml, by an Override or by a
\* Default extension.
C1_ManifestRoundTrip ==
  \A w \in Workers :
    (Returned(w) /\ Len(df[w].rows) > 0) =>
      LET a == Archive(w) IN
      /\ {"_rels/.rels", "[Content_Types].xml"} \subseteq DOMAIN a
      /\ LET listed == Targets(decode(Bytes(a["_rels/.rels"]), "utf-8"))
             types  == decode(Bytes(a["[Content_Types].xml"]), "utf-8")
         IN /\ listed = SixTargets
            /\ \A t \in listed :
                 /\ t \in DOMAIN a
                 /\ t \in Overrides(types) \/ Extension(t) \in Defaults(types)

\* C1 witness: a call on a table with rows has returned an archive that holds
\* the six targets.
C1_Witness ==
  \E w \in Workers :
    /\ Returned(w) /\ Len(df[w].rows) > 0
    /\ SixTargets \subseteq DOMAIN Archive(w)

\* What the entries of a complete archive are for an expression and a
\* narrative: the skeleton's entries, the theme replaced, and the schema, the
\* layout and the settings added.
CompleteArchive(dax, narrative_text) ==
  LET written ==
        [DataModelSchema |-> encode(json_dumps(model_wrapper(dax), 2), "utf-16-le"),
         Settings        |-> encode(json_dumps(settings, 2), "utf-16-le")]
      names == DOMAIN SkeletonEntries \cup {"DataModelSchema", "Report/Layout", "Settings"}
  IN [n \in names |->
        IF n = "Report/Layout"
          THEN encode(json_dumps(report_config(narrative_text), 2), "utf-16-le")
        ELSE IF n = "Report/Theme" THEN encode(json_dumps(theme, 2), "utf-8")
        ELSE IF n \in DOMAIN written THEN written[n]
        ELSE SkeletonEntries[n]]

\* C2: a response carries an archive only when the skeleton, the schema, the
\* layout, the theme and the settings of its call have all been written and
\* zipped; a call that fails ends with one error response, a status code and
\* a message, that carries no archive.
C2_NoPartialArchive ==
  \A w \in Workers :
    pc[w] = "done" =>
      IF response[w].code = 200
      THEN Archive(w) = CompleteArchive(dax_data_expression[w], narrative[w])
      ELSE /\ response[w].code \in {400, 500}
           /\ "pbix_base64" \notin DOMAIN response[w].body
           /\ "error" \in DOMAIN response[w].body
           /\ response[w].body.error # ""

\* C2 witness: one call has failed on an input/output error and another has
\* returned an archive.
C2_Witness ==
  /\ faults > 0 /\ calls > 1
  /\ \E w \in Workers : Returned(w) /\ "DataModelSchema" \in DOMAIN Archive(w)

\* The steps of a call from the creation of the scratch directory on.
AfterMakedirs ==
  {"structure", "extract", "remove_temp", "schema", "layout", "theme", "settings",
   "zip", "rmtree_out", "read", "remove_out"}

\* Nothing of worker w's scratch state is on the disk d.
Released(d, w) ==
  /\ extract_dir \notin d.dirs
  /\ \A f \in DOMAIN d.files : ~under(f, extract_dir)
  /\ temp_zip \notin DOMAIN d.files
  /\ output_filename(ticker[w]) \notin DOMAIN d.files

\* C3: when a call ends after it has created the scratch directory, by
\* returning the archive or by failing at any later step, neither
\* pbit_extracted, nor temp_structure.zip, nor <ticker>_dashboard.pbit is left
\* on the disk.
C3_ScratchReleased ==
  [][\A w \in Workers :
       (pc[w] \in AfterMakedirs /\ pc'[w] = "done") => Released(disk', w)]_vars

\* C4: a call whose table has no row when it reaches the formatter, because
\* the download has none or because the row filter that follows the derived
\* columns has dropped them all, returns no archive: no returned archive holds
\* a DATATABLE expression made of the header alone.
C4_InputEmpty ==
  \A w \in Workers :
    Returned(w) =>
      /\ Len(df[w].rows) > 0
      /\ RowLiterals(dax_data_expression[w]) # <<>>

\* The bytes are the UTF-16-LE encoding of text, with no byte-order mark: two
\* bytes for each character, the low one first.
IsUtf16le(bytes, text) ==
  /\ Len(bytes) = 2 * Len(text)
  /\ SubSeq(bytes, 1, 2) \notin {<<255, 254>>, <<254, 255>>}
  /\ decode(bytes, "utf-16-le") = text

\* The bytes are the UTF-8 encoding of text: one byte for each character.
IsUtf8(bytes, text) ==
  /\ Len(bytes) = Len(text)
  /\ \A i \in 1..Len(bytes) : bytes[i] < 128
  /\ decode(bytes, "utf-8") = text

\* C7: in every archive a call returns, DataModelSchema, Report/Layout and
\* Settings are the 2-space-indented JSON of their documents in two-byte
\* little-endian encoding with no byte-order mark, Report/Theme and Metadata
\* are single-byte UTF-8 JSON, and Version is the ten bytes the skeleton wrote.
C7_EntryEncodings ==
  \A w \in Workers :
    Returned(w) =>
      LET a == Archive(w) IN
      /\ SixTargets \subseteq DOMAIN a
      /\ IsUtf16le(Bytes(a["DataModelSchema"]),
                   json_dumps(model_wrapper(dax_data_expression[w]), 2))
      /\ IsUtf16le(Bytes(a["Report/Layout"]), json_dumps(report_config(narrative[w]), 2))
      /\ IsUtf16le(Bytes(a["Settings"]), json_dumps(settings, 2))
      /\ IsUtf8(Bytes(a["Report/Theme"]), json_dumps(theme, 2))
      /\ IsUtf8(Bytes(a["Metadata"]),
                "{\"type\": \"Report\", \"name\": \"GeneratedReport\"}")
      /\ Bytes(a["Version"]) = <<0, 0, 0, 0, 0, 0, 0, 0, 1, 19>>

\* C7 witness: a returned archive whose schema entry begins with the two
\* bytes of an opening brace.
C7_Witness ==
  \E w \in Workers :
    /\ Returned(w)
    /\ "DataModelSchema" \in DOMAIN Archive(w)
    /\ SubSeq(Bytes(Archive(w)["DataModelSchema"]), 1, 2) = <<123, 0>>

\* The files of the scratch tree, by their path below pbit_extracted.
Tree == {relpath(f, extract_dir) : f \in {x \in DOMAIN disk.files : under(x, extract_dir)}}

C5_ScratchIsolation ==
  \A w \in Workers :
    pc[w] = "done" =>
      /\ response[w].code = 200
      /\ {"DataModelSchema", "Report/Layout"} \subseteq DOMAIN Archive(w)
      /\ Archive(w)["DataModelSchema"]
           = encode(json_dumps(model_wrapper(dax_data_expression[w]), 2), "utf-16-le")
      /\ Archive(w)["Report/Layout"]
           = encode(json_dumps(report_config(narrative[w]), 2), "utf-16-le")

\* C6: the formatter fails on a frame whose rows lack one of the ten columns;
\* it returns no expression in which the absent field is filled in.
C6_SchemaMismatch ==
  (ret_dax # Pending /\ arg_df.cols # AllColumns /\ Len(arg_df.rows) > 0) => ~ret_dax.ok

\* The (name, type) pairs of the header clause of an expression, in order.
HeaderColumns(dax) ==
  LET line   == split(dax, "\n")[2]
      tokens == split(SubSeq(line, 5, Len(line) - 1), ", ")
  IN [i \in 1..(Len(tokens) \div 2) |-> <<tokens[2 * i - 1], tokens[2 * i]>>]

\* The value of a key of a JSON dict.
Member(dict, key) ==
  LET pairs == dict[2] IN pairs[CHOOSE i \in 1..Len(pairs) : pairs[i][1] = key][2]

\* The (name, dataType) pairs of the column list of a schema document, in
\* order, each as its JSON encoding.
DeclaredColumns(schema) ==
  LET columns == Member(Member(Member(schema, "model"), "tables")[2][1], "columns")[2]
  IN [i \in 1..Len(columns) |->
        <<Member(columns[i], "name")[2], Member(columns[i], "dataType")[2]>>]

\* The schema type that matches a DATATABLE type.
SchemaType ==
  [DATETIME |-> "dateTime", DOUBLE |-> "double", INTEGER |-> "int64",
   BOOLEAN |-> "boolean", STRING |-> "string"]

TenColumns ==
  <<"Date", "Open", "High", "Low", "Close", "Volume", "ChangePerc", "Volatility",
    "IsAnomaly", "Ticker">>

\* The literal of one cell of a column of the given DATATABLE type.
Literal(type, cell) ==
  IF type = "DATETIME" THEN "\"" \o strftime(cell) \o "\""
  ELSE IF type = "DOUBLE" THEN fmt_num(cell)
  ELSE IF type = "INTEGER" THEN IF isna(cell) THEN "0" ELSE ToString(int(cell))
  ELSE IF type = "BOOLEAN" THEN IF cell THEN "TRUE" ELSE "FALSE"
  ELSE "\"" \o cell \o "\""

\* C10: the header clause of the expression, every row literal and the column
\* list of the schema document enumerate the ten columns Date, Open, High,
\* Low, Close, Volume, ChangePerc, Volatility, IsAnomaly, Ticker in that
\* order, none left out, with matching types (DATETIME/dateTime,
\* DOUBLE/double, INTEGER/int64, BOOLEAN/boolean, STRING/string): field j of a
\* row literal is the literal of the row's cell of column j.
C10_ColumnOrder ==
  (ret_dax.ok /\ arg_df.cols = AllColumns) =>
    LET head     == HeaderColumns(ret_dax.value)
        declared == DeclaredColumns(model_wrapper(ret_dax.value))
        lits     == RowLiterals(ret_dax.value)
    IN /\ Len(head) = Len(TenColumns) /\ Len(declared) = Len(TenColumns)
       /\ \A j \in 1..Len(TenColumns) :
            /\ head[j][1] = "\"" \o TenColumns[j] \o "\""
            /\ declared[j][1] = head[j][1]
            /\ head[j][2] \in DOMAIN SchemaType
            /\ declared[j][2] = "\"" \o SchemaType[head[j][2]] \o "\""
       /\ Len(lits) = Len(arg_df.rows)
       /\ \A i \in 1..Len(lits) :
            /\ Len(Fields(lits[i])) = Len(TenColumns)
            /\ \A j \in 1..Len(TenColumns) :
                 Fields(lits[i])[j] = Literal(head[j][2], arg_df.rows[i][TenColumns[j]])

\* C10 witness: a frame with the ten columns and two rows has been formatted.
C10_Witness ==
  /\ ret_dax.ok
  /\ arg_df.cols = AllColumns
  /\ Len(arg_df.rows) = 2
  /\ Len(RowLiterals(ret_dax.value)) = 2

====
